---- MODULE Spec2Model ----
(***************************************************************************)
(* Maze generator (randomized Kruskal over a disjoint set) and maze solver *)
(* (BFS, DFS, Dijkstra, A* with optional bidirectional search).            *)
(*                                                                         *)
(* Grids are functions from <<row, col>> to {PATH, WALL}; positions and    *)
(* paths are tuples; Python's None is the empty tuple for positions and    *)
(* paths.                                                                  *)
(***************************************************************************)
EXTENDS Integers, Sequences, FiniteSets, TLC

VARIABLES gen, walls, ds, pc, solver, last, prev, calls

vars == <<gen, walls, ds, pc, solver, last, prev, calls>>

(* ------------------------------ bounds --------------------------------- *)

\* Largest maze the generator is constructed with, in cells (width x height).
MaxCells == 6
\* Calls (set_start_end, solve) made on one MazeSolver.
MaxCalls == 2
\* Directly constructed grids: largest size in cells, and how many wall
\* slots are left closed.
GridMaxWidth == 3
GridMaxHeight == 3
MaxClosed == 1
\* Directly constructed grids with any wall slots closed: largest size, in
\* cells (width x height).
FullMaxCells == 4
\* Calls made on a MazeSolver over a directly constructed grid.
GridMaxCalls == 2
\* Directly constructed grids with cells filled in: largest size, in cells.
BlockedMaxCells == 3
\* Elements of a DisjointSet used on its own.
DsMaxElements == 4

\* calls made on one solver that is solved, given a new start and end, and
\* solved again
ResolveMaxCalls == 3

\* longest maze of one row or one column generated with a callback set
MaxCorridor == 51

(* --------------------------- grid encoding ----------------------------- *)

PATH == 0
WALL == 1

\* generate() calls the animation callback "only every 50 walls"
CallbackEvery == 50

None == <<>>
\* explored_cells before the first solve (None); a set, so that it compares
\* with the sets solve() stores.
NoneCells == {None}

Abs(x) == IF x < 0 THEN -x ELSE x

SetMin(S) == CHOOSE x \in S : \A y \in S : x <= y
SetMax(S) == CHOOSE x \in S : \A y \in S : x >= y

\* range(lo, hi, 2) of Python, lo >= 0.
OddRange(lo, hi) == {i \in lo..(hi - 1) : (i - lo) % 2 = 0}

\* np.ones((2*height+1, 2*width+1)) with every (odd, odd) entry set to 0.
NewMaze(width, height) ==
    [p \in (0..(2 * height)) \X (0..(2 * width)) |->
        IF p[1] \in OddRange(1, 2 * height) /\ p[2] \in OddRange(1, 2 * width)
        THEN PATH ELSE WALL]

\* The wall records generate() builds: <<i, j, cell1, cell2>>.
HorizontalWalls(width, height) ==
    {<<i, j, <<i, j - 1>>, <<i, j + 1>>>> :
        i \in OddRange(1, 2 * height), j \in OddRange(2, 2 * width)}

VerticalWalls(width, height) ==
    {<<i, j, <<i - 1, j>>, <<i + 1, j>>>> :
        i \in OddRange(2, 2 * height), j \in OddRange(1, 2 * width)}

AllWalls(width, height) ==
    HorizontalWalls(width, height) \cup VerticalWalls(width, height)

\* The key of the 'easy' sort.
SortKey(w) == Abs(w[1] - w[3][1]) + Abs(w[2] - w[3][2])

\* cell index of a cell's grid coordinate
CellIdx(cell, width) == (cell[1] \div 2) * width + (cell[2] \div 2)

(* ----------------------------- DisjointSet ----------------------------- *)

NewDisjointSet(n) ==
    [parent |-> [x \in 0..(n - 1) |-> x], rank |-> [x \in 0..(n - 1) |-> 0]]

\* Find that writes nothing: the parent array as it was, and the root.
RECURSIVE FindNoCompression(_, _)
FindNoCompression(parent, x) ==
    IF parent[x] # x
    THEN [parent |-> parent, root |-> FindNoCompression(parent, parent[x]).root]
    ELSE [parent |-> parent, root |-> x]

\* find with path compression: the parent array afterwards, and the root.
RECURSIVE Find(_, _)
Find(parent, x) ==
    IF parent[x] # x
    THEN LET r == Find(parent, parent[x])
         IN  [parent |-> [r.parent EXCEPT ![x] = r.root], root |-> r.root]
    ELSE [parent |-> parent, root |-> x]

\* Union that links the elements given instead of their roots.
UnionLinksElements(d, x, y) ==
    LET fx == Find(d.parent, x)
        fy == Find(fx.parent, y)
        p == fy.parent
    IN  IF fx.root = fy.root
        THEN [ds |-> [d EXCEPT !.parent = p], ret |-> FALSE]
        ELSE IF d.rank[fx.root] < d.rank[fy.root]
        THEN [ds |-> [d EXCEPT !.parent = [p EXCEPT ![x] = y]], ret |-> TRUE]
        ELSE IF d.rank[fx.root] > d.rank[fy.root]
        THEN [ds |-> [d EXCEPT !.parent = [p EXCEPT ![y] = x]], ret |-> TRUE]
        ELSE [ds |-> [parent |-> [p EXCEPT ![y] = x],
                      rank |-> [d.rank EXCEPT ![fx.root] = @ + 1]],
              ret |-> TRUE]

\* Union with the test for a shared set made on the elements, not the roots.
UnionComparesElements(d, x, y) ==
    LET fx == Find(d.parent, x)
        fy == Find(fx.parent, y)
        p == fy.parent
    IN  IF x = y
        THEN [ds |-> [d EXCEPT !.parent = p], ret |-> FALSE]
        ELSE [ds |-> [parent |-> [p EXCEPT ![fy.root] = fx.root],
                      rank |-> [d.rank EXCEPT ![fx.root] = @ + 1]],
              ret |-> TRUE]

\* union by rank: the disjoint set afterwards, and the value returned.
Union(d, x, y) ==
    LET fx == Find(d.parent, x)
        fy == Find(fx.parent, y)
        root_x == fx.root
        root_y == fy.root
        p == fy.parent
    IN  IF root_x = root_y
        THEN [ds |-> [d EXCEPT !.parent = p], ret |-> FALSE]
        ELSE IF d.rank[root_x] < d.rank[root_y]
        THEN [ds |-> [d EXCEPT !.parent = [p EXCEPT ![root_x] = root_y]],
              ret |-> TRUE]
        ELSE IF d.rank[root_x] > d.rank[root_y]
        THEN [ds |-> [d EXCEPT !.parent = [p EXCEPT ![root_y] = root_x]],
              ret |-> TRUE]
        ELSE [ds |-> [parent |-> [p EXCEPT ![root_y] = root_x],
                      rank |-> [d.rank EXCEPT ![root_x] = @ + 1]],
              ret |-> TRUE]

\* DisjointSet(n), for a caller that calls find and union in any order.
InitDs ==
    /\ \E n \in 1..DsMaxElements : ds = NewDisjointSet(n)
    /\ pc = "disjoint_set"
    /\ gen = [width |-> 0, height |-> 0, difficulty |-> "none", maze |-> <<>>,
              animation_callback |-> None, notified |-> 0]
    /\ walls = {}
    /\ solver = [maze |-> <<>>, height |-> 0, width |-> 0, start |-> <<>>,
                 end |-> <<>>, solution_path |-> <<>>, explored_cells |-> {<<>>}]
    /\ last = [op |-> "none"]
    /\ prev = [op |-> "none"]
    /\ calls = 0

\* ds.find(x); last keeps the call, what it returned and the disjoint set
\* it was made on.
FindCall(x) ==
    /\ pc = "disjoint_set"
    /\ ds' = [ds EXCEPT !.parent = Find(ds.parent, x).parent]
    /\ last' = [op |-> "find", x |-> x, y |-> x,
                ret |-> Find(ds.parent, x).root, before |-> ds]
    /\ UNCHANGED <<gen, walls, pc, solver, prev, calls>>

\* ds.union(x, y)
UnionCall(x, y) ==
    /\ pc = "disjoint_set"
    /\ ds' = Union(ds, x, y).ds
    /\ last' = [op |-> "union", x |-> x, y |-> y,
                ret |-> Union(ds, x, y).ret, before |-> ds]
    /\ UNCHANGED <<gen, walls, pc, solver, prev, calls>>

NextDs ==
    \/ \E x \in DOMAIN ds.parent : FindCall(x)
    \/ \E x, y \in DOMAIN ds.parent : UnionCall(x, y)

SpecDs == InitDs /\ [][NextDs]_vars

(* ---------------------------- MazeGenerator ---------------------------- *)

Difficulties == {"easy", "normal", "hard"}

NoSolver ==
    [maze |-> None, height |-> 0, width |-> 0, start |-> None, end |-> None,
     solution_path |-> None, explored_cells |-> NoneCells]

\* A call on the solver: the method, whether set_start_end was given a
\* start and an end, the arguments of solve, and what the call returned.
NoCall ==
    [op |-> "none", start_is_none |-> FALSE, end_is_none |-> FALSE,
     algorithm |-> "", bidirectional |-> FALSE, ret |-> None]

\* MazeGenerator(width, height, difficulty).  notified counts the calls of
\* the animation callback.
Init ==
    /\ \E width \in 1..MaxCells, height \in 1..MaxCells, difficulty \in Difficulties :
          /\ width * height <= MaxCells
          /\ gen = [width |-> width, height |-> height, difficulty |-> difficulty,
                 maze |-> NewMaze(width, height),
                 animation_callback |-> None, notified |-> 0]
    /\ walls = {}
    /\ ds = NewDisjointSet(0)
    /\ pc = "constructed"
    /\ solver = NoSolver
    /\ last = NoCall
    /\ prev = NoCall
    /\ calls = 0

\* MazeGenerator(width, height, difficulty) for any integers: np.ones raises
\* ValueError on a negative dimension and no object is made; otherwise the
\* object is made, also with a dimension of 0.
Construct(width, height, difficulty) ==
    IF 2 * height + 1 < 0 \/ 2 * width + 1 < 0
    THEN [pc |-> "failed",
          gen |-> [width |-> width, height |-> height, difficulty |-> difficulty,
                   maze |-> None,
                   animation_callback |-> None, notified |-> 0]]
    ELSE [pc |-> "constructed",
          gen |-> [width |-> width, height |-> height, difficulty |-> difficulty,
                   maze |-> NewMaze(width, height),
                   animation_callback |-> None, notified |-> 0]]

\* MazeGenerator(width, height, difficulty) called with any small integers.
InitDims ==
    /\ \E width \in (-1)..MaxCells, height \in (-1)..MaxCells,
          difficulty \in Difficulties :
          /\ width * height <= MaxCells
          /\ gen = Construct(width, height, difficulty).gen
          /\ pc = Construct(width, height, difficulty).pc
    /\ walls = {}
    /\ ds = NewDisjointSet(0)
    /\ solver = NoSolver
    /\ last = NoCall
    /\ prev = NoCall
    /\ calls = 0

\* Main with the test for a negative dimension only.
MainRejectsNegative(width, height) ==
    IF width < 0 \/ height < 0
    THEN [pc |-> "rejected",
          gen |-> [width |-> width, height |-> height, difficulty |-> "normal",
                   maze |-> None,
                   animation_callback |-> None, notified |-> 0]]
    ELSE Construct(width, height, "normal")

\* main(), from the two integers read to the generator constructed: a
\* dimension <= 0 is reported and main returns before MazeGenerator is
\* called.  gen keeps the integers read.
Main(width, height) ==
    IF width <= 0 \/ height <= 0
    THEN [pc |-> "rejected",
          gen |-> [width |-> width, height |-> height, difficulty |-> "normal",
                   maze |-> None,
                   animation_callback |-> None, notified |-> 0]]
    ELSE Construct(width, height, "normal")

\* main() has read two small integers, of any sign.
InitMain ==
    /\ \E width \in (-1)..MaxCells, height \in (-1)..MaxCells :
          /\ width * height <= MaxCells
          /\ gen = [width |-> width, height |-> height, difficulty |-> "normal",
                    maze |-> None,
                    animation_callback |-> None, notified |-> 0]
    /\ pc = "main"
    /\ walls = {}
    /\ ds = NewDisjointSet(0)
    /\ solver = NoSolver
    /\ last = NoCall
    /\ prev = NoCall
    /\ calls = 0

\* main() tests the integers read and constructs the generator.
MainConstruct ==
    /\ pc = "main"
    /\ gen' = Main(gen.width, gen.height).gen
    /\ pc' = Main(gen.width, gen.height).pc
    /\ UNCHANGED <<walls, ds, solver, last, prev, calls>>

\* generate(), up to its loop: the wall list, shuffled (and for 'hard'
\* shuffled again, for 'easy' sorted), and the disjoint set.  The shuffled
\* order is any order; the loop draws it one wall at a time.
GenerateBegin ==
    /\ pc = "constructed"
    /\ walls' = AllWalls(gen.width, gen.height)
    /\ ds' = NewDisjointSet(gen.width * gen.height)
    /\ pc' = "generating"
    /\ UNCHANGED <<gen, solver, last, prev, calls>>

\* The walls that can come next in the list: any of those left after a
\* shuffle; after the stable sort of 'easy', any of those left with the
\* least key.
NextWalls ==
    IF gen.difficulty = "easy"
    THEN {w \in walls : \A v \in walls : SortKey(w) <= SortKey(v)}
    ELSE walls

\* RemoveWall whatever union returned.
RemoveWallAlways(maze, w, merged) == [maze EXCEPT ![<<w[1], w[2]>>] = PATH]

\* RemoveWall with the wall's row and column swapped.
RemoveWallSwapped(maze, w, merged) ==
    IF merged /\ <<w[2], w[1]>> \in DOMAIN maze
    THEN [maze EXCEPT ![<<w[2], w[1]>>] = PATH] ELSE maze

\* The maze after one wall of the loop, given what union returned.
RemoveWall(maze, w, merged) ==
    IF merged THEN [maze EXCEPT ![<<w[1], w[2]>>] = PATH] ELSE maze

\* The callback is called after a wall was removed, when it is set and
\* len(walls), the length of the whole wall list, is a multiple of 50.
CallbackCalled(g, merged) ==
    /\ merged
    /\ g.animation_callback # None
    /\ Cardinality(AllWalls(g.width, g.height)) % CallbackEvery = 0

\* The body of generate()'s loop for the wall w.
LoopBody(w) ==
    LET u == Union(ds, CellIdx(w[3], gen.width), CellIdx(w[4], gen.width))
    IN  /\ ds' = u.ds
        /\ gen' = [gen EXCEPT !.maze = RemoveWall(gen.maze, w, u.ret),
                              !.notified = IF CallbackCalled(gen, u.ret)
                                           THEN @ + 1 ELSE @]
        /\ walls' = walls \ {w}

\* One iteration of generate()'s loop.
ProcessWall ==
    /\ pc = "generating"
    /\ \E w \in NextWalls : LoopBody(w)
    /\ UNCHANGED <<pc, solver, last, prev, calls>>

\* set_animation_callback(callback), before generate()
SetAnimationCallback ==
    /\ pc = "constructed"
    /\ gen.animation_callback = None
    /\ gen' = [gen EXCEPT !.animation_callback = <<"callback">>]
    /\ UNCHANGED <<walls, ds, pc, solver, last, prev, calls>>

\* generate() returns the maze; its disjoint set goes with it.
GenerateReturn ==
    /\ pc = "generating"
    /\ walls = {}
    /\ ds' = NewDisjointSet(0)
    /\ pc' = "generated"
    /\ UNCHANGED <<gen, walls, solver, last, prev, calls>>

(* ------------------------------ MazeSolver ----------------------------- *)

\* MazeSolver(maze): height, width = maze.shape
NewSolver(maze) ==
    LET rows == {p[1] : p \in DOMAIN maze}
        cols == {p[2] : p \in DOMAIN maze}
    IN  [maze |-> maze, height |-> Cardinality(rows), width |-> Cardinality(cols),
         start |-> None, end |-> None,
         solution_path |-> None, explored_cells |-> NoneCells]

\* The first position of S in row-major order / the last one.
FirstRowMajor(S) ==
    CHOOSE p \in S : \A q \in S : p[1] < q[1] \/ (p[1] = q[1] /\ p[2] <= q[2])
LastRowMajor(S) ==
    CHOOSE p \in S : \A q \in S : p[1] > q[1] \/ (p[1] = q[1] /\ p[2] >= q[2])

\* The default start: the first open entry of row 1, else what start
\* already holds, else (when that is None) the first open (odd, odd) entry.
DefaultStart(s) ==
    LET top == {j \in 1..(s.width - 1) : s.maze[<<1, j>>] = PATH}
        start1 == IF top # {} THEN <<1, SetMin(top)>> ELSE s.start
        open == {p \in OddRange(1, s.height) \X OddRange(1, s.width) :
                    s.maze[p] = PATH}
    IN  IF start1 # None THEN start1
        ELSE IF open # {} THEN FirstRowMajor(open) ELSE None

\* The default end: the last open entry of row height-2, else what end
\* already holds, else the last open entry of range(height-2, 0, -2) x
\* range(width-2, 0, -2).
DefaultEnd(s) ==
    LET bottom == {j \in 1..(s.width - 2) : s.maze[<<s.height - 2, j>>] = PATH}
        end1 == IF bottom # {} THEN <<s.height - 2, SetMax(bottom)>> ELSE s.end
        open == {p \in {i \in 1..(s.height - 2) : (s.height - 2 - i) % 2 = 0}
                        \X {j \in 1..(s.width - 2) : (s.width - 2 - j) % 2 = 0} :
                    s.maze[p] = PATH}
    IN  IF end1 # None THEN end1
        ELSE IF open # {} THEN LastRowMajor(open) ELSE None

\* set_start_end(start, end): the solver afterwards.
SetStartEndOp(s, start, end) ==
    LET s1 == [s EXCEPT !.start = IF start = None THEN DefaultStart(s) ELSE start]
    IN  [s1 EXCEPT !.end = IF end = None THEN DefaultEnd(s1) ELSE end]

\* What every _solve_* does first.
EnsureStartEnd(s) ==
    IF s.start = None \/ s.end = None THEN SetStartEndOp(s, None, None) ELSE s

\* heuristic(a, b)
Heuristic(a, b) == Abs(a[1] - b[1]) + Abs(a[2] - b[2])

\* right, down, left, up
Directions == <<<<0, 1>>, <<1, 0>>, <<0, -1>>, <<-1, 0>>>>

\* InBoundsOpen without the test for a wall.
InBoundsAnyEntry(s, p) ==
    /\ 0 <= p[1] /\ p[1] < s.height
    /\ 0 <= p[2] /\ p[2] < s.width

InBoundsOpen(s, p) ==
    /\ 0 <= p[1] /\ p[1] < s.height
    /\ 0 <= p[2] /\ p[2] < s.width
    /\ s.maze[p] = PATH

\* GetNeighbors without the last direction (up).
GetNeighborsNoUp(s, position) ==
    LET cand == [k \in 1..3 |->
                    <<position[1] + Directions[k][1], position[2] + Directions[k][2]>>]
    IN  SelectSeq(cand, LAMBDA p : InBoundsOpen(s, p))

\* get_neighbors(position): the list it returns.
GetNeighbors(s, position) ==
    LET cand == [k \in 1..4 |->
                    <<position[1] + Directions[k][1], position[2] + Directions[k][2]>>]
    IN  SelectSeq(cand, LAMBDA p : InBoundsOpen(s, p))

ReverseSeq(q) == [k \in 1..Len(q) |-> q[Len(q) + 1 - k]]
SeqSet(q) == {q[k] : k \in 1..Len(q)}

\* path = [current]; while current in came_from: current = came_from[current];
\* path.append(current)
RECURSIVE Chain(_, _)
Chain(came_from, current) ==
    IF current \in DOMAIN came_from
    THEN <<current>> \o Chain(came_from, came_from[current])
    ELSE <<current>>

NoDict == <<>>
Put(dict, k, v) == (k :> v) @@ dict

\* The result of a search: what it returns, and the solver it leaves.
Found(s, path, explored) ==
    [ret |-> path,
     solver |-> [s EXCEPT !.solution_path = path, !.explored_cells = explored]]
NotFound(s, explored) ==
    [ret |-> None, solver |-> [s EXCEPT !.explored_cells = explored]]

(* BFS *)

\* The while loop of _solve_bfs; queue entries are <<position, path>>.
RECURSIVE BfsLoop(_, _, _, _)
BfsLoop(s, queue, visited, explored) ==
    IF queue = <<>> THEN NotFound(s, explored)
    ELSE LET current == Head(queue)[1]
             path == Head(queue)[2]
             explored1 == explored \cup {current}
             fresh == SelectSeq(GetNeighbors(s, current), LAMBDA n : n \notin visited)
         IN  IF current = s.end THEN Found(s, path, explored1)
             ELSE BfsLoop(s,
                          Tail(queue) \o [k \in 1..Len(fresh) |->
                                            <<fresh[k], Append(path, fresh[k])>>],
                          visited \cup SeqSet(fresh),
                          explored1)

\* SolveBfs with a visited set that outlives the call.
SolveBfsKeepsVisited(s0) ==
    LET s == EnsureStartEnd(s0)
    IN  BfsLoop(s, <<<<s.start, <<s.start>>>>>>,
                {s.start} \cup s.explored_cells, {})

SolveBfs(s0) ==
    LET s == EnsureStartEnd(s0)
    IN  BfsLoop(s, <<<<s.start, <<s.start>>>>>>, {s.start}, {})

(* DFS *)

\* A search result r together with the cells popped, in the order popped.
WithPopped(r, popped) == [popped |-> popped] @@ r

\* The while loop of _solve_dfs; the top of the stack is its last entry.
\* popped logs the cells popped, in order.
RECURSIVE DfsLoop(_, _, _, _, _)
DfsLoop(s, stack, visited, explored, popped) ==
    IF stack = <<>> THEN WithPopped(NotFound(s, explored), popped)
    ELSE LET current == stack[Len(stack)][1]
             path == stack[Len(stack)][2]
             explored1 == explored \cup {current}
             fresh == SelectSeq(ReverseSeq(GetNeighbors(s, current)),
                                LAMBDA n : n \notin visited)
         IN  IF current = s.end
             THEN WithPopped(Found(s, path, explored1), Append(popped, current))
             ELSE DfsLoop(s,
                          SubSeq(stack, 1, Len(stack) - 1) \o
                              [k \in 1..Len(fresh) |->
                                  <<fresh[k], Append(path, fresh[k])>>],
                          visited \cup SeqSet(fresh),
                          explored1,
                          Append(popped, current))

\* SolveDfs with the start left out of the first path.
SolveDfsEmptyPath(s0) ==
    LET s == EnsureStartEnd(s0)
    IN  DfsLoop(s, <<<<s.start, <<>>>>>>, {s.start}, {}, <<>>)

SolveDfs(s0) ==
    LET s == EnsureStartEnd(s0)
    IN  DfsLoop(s, <<<<s.start, <<s.start>>>>>>, {s.start}, {}, <<>>)

(* priority queues: heapq over tuples <<priority, position>> *)

\* Python's tuple order on <<priority, <<row, col>>>>.
TupleLess(a, b) ==
    \/ a[1] < b[1]
    \/ a[1] = b[1] /\ a[2][1] < b[2][1]
    \/ a[1] = b[1] /\ a[2][1] = b[2][1] /\ a[2][2] < b[2][2]

\* heappop: the least entry.
HeapTop(heap) == CHOOSE a \in heap : \A b \in heap : a = b \/ TupleLess(a, b)

(* Dijkstra *)

\* The for loop over the neighbours of the popped node: st holds
\* distances, came_from and pq.
RECURSIVE DijkstraRelax(_, _, _, _, _)
DijkstraRelax(st, current, current_dist, neighbors, k) ==
    IF k > Len(neighbors) THEN st
    ELSE LET neighbor == neighbors[k]
             dist == current_dist + 1
         IN  IF neighbor \notin DOMAIN st.distances \/ dist < st.distances[neighbor]
             THEN DijkstraRelax(
                     [st EXCEPT !.distances = Put(@, neighbor, dist),
                                !.came_from = Put(@, neighbor, current),
                                !.pq = @ \cup {<<dist, neighbor>>}],
                     current, current_dist, neighbors, k + 1)
             ELSE DijkstraRelax(st, current, current_dist, neighbors, k + 1)

\* A search result r together with the log of the expansions made.
WithExpanded(r, expanded) == [expanded |-> expanded] @@ r

\* A node popped from a priority queue and expanded: the priority of the
\* entry popped, and the priority the cost recorded for the node gives at
\* that moment.
Expansion(entry, recorded) ==
    [node |-> entry[2], priority |-> entry[1], recorded |-> recorded]

\* The while loop of _solve_dijkstra.  st.expanded logs the expansions.
RECURSIVE DijkstraLoop(_, _, _)
DijkstraLoop(s, st, explored) ==
    IF st.pq = {} THEN WithExpanded(NotFound(s, explored), st.expanded)
    ELSE LET top == HeapTop(st.pq)
             current_dist == top[1]
             current == top[2]
             popped == [st EXCEPT !.pq = @ \ {top},
                                  !.expanded = @ \cup
                                      {Expansion(top, st.distances[current])}]
         IN  IF current = s.end
             THEN WithExpanded(
                      Found(s, ReverseSeq(Chain(st.came_from, current)), explored),
                      st.expanded)
             ELSE DijkstraLoop(s,
                     DijkstraRelax(popped, current, current_dist,
                                   GetNeighbors(s, current), 1),
                     explored \cup {current})

SolveDijkstra(s0) ==
    LET s == EnsureStartEnd(s0)
    IN  DijkstraLoop(s,
            [distances |-> Put(NoDict, s.start, 0), came_from |-> NoDict,
             pq |-> {<<0, s.start>>}, expanded |-> {}],
            {})

(* A*, unidirectional and bidirectional *)

OpenNodes(open_set) == {e[2] : e \in open_set}

\* process_node: the for loop over the neighbours of the node just closed,
\* from the k-th on.  a holds the open and closed sets and the dictionaries
\* of both directions; the result is a afterwards and the meeting point
\* returned (None when the loop runs to its end).
RECURSIVE ProcessNode(_, _, _, _, _, _)
ProcessNode(s, a, current, is_forward, neighbors, k) ==
    IF k > Len(neighbors) THEN [a |-> a, meeting |-> None]
    ELSE
    LET neighbor == neighbors[k]
        target == IF is_forward THEN s.end ELSE s.start
        open_set == IF is_forward THEN a.fwd_open ELSE a.back_open
        closed_set == IF is_forward THEN a.fwd_closed ELSE a.back_closed
        other_closed == IF is_forward THEN a.back_closed ELSE a.fwd_closed
        g_score == IF is_forward THEN a.fwd_g ELSE a.back_g
        tentative_g == g_score[current] + 1
        in_open == neighbor \in OpenNodes(open_set)
        f == tentative_g + Heuristic(neighbor, target)
        open1 == IF in_open THEN open_set ELSE open_set \cup {<<f, neighbor>>}
        a1 == IF is_forward
              THEN [a EXCEPT !.fwd_came_from = Put(@, neighbor, current),
                             !.fwd_g = Put(@, neighbor, tentative_g),
                             !.fwd_f = Put(@, neighbor, f),
                             !.fwd_open = open1]
              ELSE [a EXCEPT !.back_came_from = Put(@, neighbor, current),
                             !.back_g = Put(@, neighbor, tentative_g),
                             !.back_f = Put(@, neighbor, f),
                             !.back_open = open1]
    IN  IF neighbor \in closed_set
        THEN ProcessNode(s, a, current, is_forward, neighbors, k + 1)
        ELSE IF ~in_open \/ tentative_g < g_score[neighbor]
        THEN IF neighbor \in other_closed
             THEN [a |-> a1, meeting |-> neighbor]
             ELSE ProcessNode(s, a1, current, is_forward, neighbors, k + 1)
        ELSE ProcessNode(s, a, current, is_forward, neighbors, k + 1)

\* The path built at a meeting point: fwd_path + back_path[1:].
MeetingPath(a, meeting_point) ==
    LET fwd_path == ReverseSeq(Chain(a.fwd_came_from, meeting_point))
        back_path == Tail(Chain(a.back_came_from, meeting_point))
    IN  fwd_path \o (IF back_path = <<>> THEN <<>> ELSE Tail(back_path))

\* The return at a meeting point: the path built is stored and returned;
\* the result also keeps the meeting point and the two came_from
\* dictionaries the path was built from.
FoundMeeting(s, a, meeting_point, explored) ==
    [ret |-> MeetingPath(a, meeting_point),
     solver |-> Found(s, MeetingPath(a, meeting_point), explored).solver,
     meeting_point |-> meeting_point,
     fwd_came_from |-> a.fwd_came_from,
     back_came_from |-> a.back_came_from]

\* AstarLoop with a loop that needs both frontiers, bidirectional or not.
RECURSIVE AstarLoopNeedsBothFrontiers(_, _, _, _)
AstarLoopNeedsBothFrontiers(s, bidirectional, a, explored) ==
    IF ~(a.fwd_open # {} /\ a.back_open # {})
    THEN WithExpanded(NotFound(s, explored), a.expanded)
    ELSE
    LET ftop == HeapTop(a.fwd_open)
        fcur == ftop[2]
        a1 == [a EXCEPT !.fwd_open = @ \ {ftop}, !.fwd_closed = @ \cup {fcur},
                        !.expanded = @ \cup {Expansion(ftop, a.fwd_f[fcur])}]
        explored1 == explored \cup {fcur}
        fr == ProcessNode(s, a1, fcur, TRUE, GetNeighbors(s, fcur), 1)
        a2 == fr.a
        btop == HeapTop(a2.back_open)
        bcur == btop[2]
        a3 == [a2 EXCEPT !.back_open = @ \ {btop}, !.back_closed = @ \cup {bcur},
                         !.expanded = @ \cup {Expansion(btop, a2.back_f[bcur])}]
        explored2 == explored1 \cup {bcur}
        br == ProcessNode(s, a3, bcur, FALSE, GetNeighbors(s, bcur), 1)
    IN  IF fcur = s.end
        THEN WithExpanded(
                 Found(s, ReverseSeq(Chain(a.fwd_came_from, fcur)), explored),
                 a.expanded)
        ELSE IF fr.meeting # None
        THEN WithExpanded(FoundMeeting(s, a2, fr.meeting, explored1), a2.expanded)
        ELSE IF bidirectional /\ a2.back_open # {}
        THEN IF br.meeting # None
             THEN WithExpanded(FoundMeeting(s, br.a, br.meeting, explored2),
                               br.a.expanded)
             ELSE AstarLoopNeedsBothFrontiers(s, bidirectional, br.a, explored2)
        ELSE AstarLoopNeedsBothFrontiers(s, bidirectional, a2, explored1)

\* The while loop of _solve_astar: one forward step, then one backward step.
\* a.expanded logs the expansions.
RECURSIVE AstarLoop(_, _, _, _)
AstarLoop(s, bidirectional, a, explored) ==
    IF ~(a.fwd_open # {} /\ (~bidirectional \/ a.back_open # {}))
    THEN WithExpanded(NotFound(s, explored), a.expanded)
    ELSE
    LET ftop == HeapTop(a.fwd_open)
        fcur == ftop[2]
        a1 == [a EXCEPT !.fwd_open = @ \ {ftop}, !.fwd_closed = @ \cup {fcur},
                        !.expanded = @ \cup {Expansion(ftop, a.fwd_f[fcur])}]
        explored1 == explored \cup {fcur}
        fr == ProcessNode(s, a1, fcur, TRUE, GetNeighbors(s, fcur), 1)
        a2 == fr.a
        btop == HeapTop(a2.back_open)
        bcur == btop[2]
        a3 == [a2 EXCEPT !.back_open = @ \ {btop}, !.back_closed = @ \cup {bcur},
                         !.expanded = @ \cup {Expansion(btop, a2.back_f[bcur])}]
        explored2 == explored1 \cup {bcur}
        br == ProcessNode(s, a3, bcur, FALSE, GetNeighbors(s, bcur), 1)
    IN  IF fcur = s.end
        THEN WithExpanded(
                 Found(s, ReverseSeq(Chain(a.fwd_came_from, fcur)), explored),
                 a.expanded)
        ELSE IF fr.meeting # None
        THEN WithExpanded(FoundMeeting(s, a2, fr.meeting, explored1), a2.expanded)
        ELSE IF bidirectional /\ a2.back_open # {}
        THEN IF br.meeting # None
             THEN WithExpanded(FoundMeeting(s, br.a, br.meeting, explored2),
                               br.a.expanded)
             ELSE AstarLoop(s, bidirectional, br.a, explored2)
        ELSE AstarLoop(s, bidirectional, a2, explored1)

SolveAstar(s0, bidirectional) ==
    LET s == EnsureStartEnd(s0)
    IN  AstarLoop(s, bidirectional,
            [fwd_open |-> {<<Heuristic(s.start, s.end), s.start>>},
             back_open |-> IF bidirectional
                           THEN {<<Heuristic(s.end, s.start), s.end>>} ELSE {},
             fwd_closed |-> {}, back_closed |-> {},
             fwd_came_from |-> NoDict, back_came_from |-> NoDict,
             fwd_g |-> Put(NoDict, s.start, 0), back_g |-> Put(NoDict, s.end, 0),
             fwd_f |-> Put(NoDict, s.start, Heuristic(s.start, s.end)),
             back_f |-> Put(NoDict, s.end, Heuristic(s.end, s.start)),
             expanded |-> {}],
            {})

\* solve(bidirectional, algorithm) without a callback: what it returns and
\* the solver it leaves.
SolveOp(s, algorithm, bidirectional) ==
    IF algorithm = "bfs" THEN SolveBfs(s)
    ELSE IF algorithm = "dfs" THEN SolveDfs(s)
    ELSE IF algorithm = "dijkstra" THEN SolveDijkstra(s)
    ELSE SolveAstar(s, bidirectional)

\* The ways solve() is called: bidirectional only matters to A*, the others
\* are called with its default.
SolveCalls ==
    {<<"bfs", TRUE>>, <<"dfs", TRUE>>, <<"dijkstra", TRUE>>,
     <<"astar", TRUE>>, <<"astar", FALSE>>}

\* MazeSolver(generator.maze), once generate() has returned.
MakeSolver ==
    /\ pc = "generated"
    /\ solver' = NewSolver(gen.maze)
    /\ pc' = "solver"
    /\ UNCHANGED <<gen, walls, ds, last, prev, calls>>

\* solver.set_start_end(start, end)
SetStartEnd(start, end, max_calls) ==
    /\ pc = "solver"
    /\ calls < max_calls
    /\ solver' = SetStartEndOp(solver, start, end)
    /\ last' = [op |-> "set_start_end",
                start_is_none |-> (start = None), end_is_none |-> (end = None),
                algorithm |-> "", bidirectional |-> FALSE, ret |-> None]
    /\ prev' = last
    /\ calls' = calls + 1
    /\ UNCHANGED <<gen, walls, ds, pc>>

\* solver.solve(bidirectional, algorithm = algorithm)
Solve(algorithm, bidirectional, max_calls) ==
    /\ pc = "solver"
    /\ calls < max_calls
    /\ LET r == SolveOp(solver, algorithm, bidirectional)
       IN  /\ solver' = r.solver
           /\ last' = [op |-> "solve",
                       start_is_none |-> FALSE, end_is_none |-> FALSE,
                       algorithm |-> algorithm,
                       bidirectional |-> bidirectional, ret |-> r.ret]
    /\ prev' = last
    /\ calls' = calls + 1
    /\ UNCHANGED <<gen, walls, ds, pc>>

\* The cells of a maze, as grid positions.
Cells(maze) == {p \in DOMAIN maze : p[1] % 2 = 1 /\ p[2] % 2 = 1}
\* The open entries of a maze.
OpenEntries(maze) == {p \in DOMAIN maze : maze[p] = PATH}

GenNext == GenerateBegin \/ ProcessWall \/ GenerateReturn

SpecGen == Init /\ [][GenNext]_vars

\* The generator constructed by main(), or directly by another caller.
\* MazeGenerator(width, 1) and MazeGenerator(1, height): mazes of one row or
\* one column.
InitCorridor ==
    /\ \E width \in 1..MaxCorridor, height \in 1..MaxCorridor :
          /\ width = 1 \/ height = 1
          /\ gen = Construct(width, height, "normal").gen
    /\ walls = {}
    /\ ds = NewDisjointSet(0)
    /\ pc = "constructed"
    /\ solver = NoSolver
    /\ last = NoCall
    /\ prev = NoCall
    /\ calls = 0

\* The shuffles that leave next in the list a wall at either end of the
\* walls not yet processed (in the order of their grid positions).
NextWallsAtEnds ==
    {w \in walls :
        \/ \A v \in walls : w[1] + w[2] <= v[1] + v[2]
        \/ \A v \in walls : w[1] + w[2] >= v[1] + v[2]}

\* One iteration of generate()'s loop after such a shuffle.
ProcessWallAtEnds ==
    /\ pc = "generating"
    /\ \E w \in NextWallsAtEnds : LoopBody(w)
    /\ UNCHANGED <<pc, solver, last, prev, calls>>

NextObserver ==
    SetAnimationCallback \/ GenerateBegin \/ ProcessWallAtEnds \/ GenerateReturn

SpecObserver == InitCorridor /\ [][NextObserver]_vars

InitCallers == InitMain \/ InitDims

MainNext == MainConstruct \/ GenerateBegin \/ ProcessWall \/ GenerateReturn

SpecMain == InitCallers /\ [][MainNext]_vars

\* The generator's maze, solved between cells chosen by the caller or by
\* default.
Next ==
    \/ GenerateBegin
    \/ ProcessWall
    \/ GenerateReturn
    \/ MakeSolver
    \/ \E start, end \in Cells(solver.maze) \cup {None} :
          SetStartEnd(start, end, MaxCalls)
    \/ \E c \in SolveCalls : Solve(c[1], c[2], MaxCalls)

Spec == Init /\ [][Next]_vars

\* The subsets of S with at most k elements.
RECURSIVE SubsetsUpTo(_, _)
SubsetsUpTo(S, k) ==
    IF k = 0 THEN {{}}
    ELSE LET smaller == SubsetsUpTo(S, k - 1)
         IN  smaller \cup {t \cup {x} : t \in smaller, x \in S}

\* The grids of the wall encoding for a width x height maze with at most
\* max_closed wall slots closed.
Grids(width, height, max_closed) ==
    LET slots == {<<x[1], x[2]>> : x \in AllWalls(width, height)}
    IN  {[p \in DOMAIN NewMaze(width, height) |->
            IF p \in slots \ closed THEN PATH ELSE NewMaze(width, height)[p]] :
          closed \in SubsetsUpTo(slots, max_closed)}

\* Nearly open grids.
GridFamily ==
    UNION {Grids(w, h, MaxClosed) :
             <<w, h>> \in (1..GridMaxWidth) \X (1..GridMaxHeight)}

\* Small grids with any wall slots closed.
SmallGridFamily ==
    UNION {Grids(d[1], d[2], Cardinality(AllWalls(d[1], d[2]))) :
             d \in {e \in (1..FullMaxCells) \X (1..FullMaxCells) :
                      e[1] * e[2] <= FullMaxCells}}

\* MazeSolver(grid) over a directly constructed grid of the family.
InitOver(family) ==
    /\ \E grid \in family :
          /\ solver = NewSolver(grid)
          /\ gen = [width |-> (solver.width - 1) \div 2,
                    height |-> (solver.height - 1) \div 2,
                    difficulty |-> "none", maze |-> grid,
                    animation_callback |-> None, notified |-> 0]
    /\ walls = {}
    /\ ds = NewDisjointSet(0)
    /\ pc = "solver"
    /\ last = NoCall
    /\ prev = NoCall
    /\ calls = 0

InitGrid == InitOver(GridFamily)

InitSmall == InitOver(SmallGridFamily)

\* The caller sets the start and end, or leaves the defaults, and solves.
NextGrid ==
    \/ \E start, end \in OpenEntries(solver.maze) \cup {None} :
          SetStartEnd(start, end, GridMaxCalls - 1)
    \/ \E c \in SolveCalls : Solve(c[1], c[2], GridMaxCalls)

SpecGrid == InitGrid /\ [][NextGrid]_vars

SpecSmall == InitSmall /\ [][NextGrid]_vars

\* The caller solves, sets another start and end, and solves again.
NextResolve ==
    \/ \E start, end \in OpenEntries(solver.maze) \cup {None} :
          SetStartEnd(start, end, ResolveMaxCalls - 1)
    \/ \E c \in SolveCalls : Solve(c[1], c[2], ResolveMaxCalls)

SpecResolve == InitSmall /\ [][NextResolve]_vars

\* The grids of a width x height maze with any wall slots closed and any
\* cells filled in, one cell at least left open.
BlockedGrids(width, height) ==
    LET cells == Cells(NewMaze(width, height))
    IN  {[p \in DOMAIN g |-> IF p \in blocked THEN WALL ELSE g[p]] :
          g \in Grids(width, height, Cardinality(AllWalls(width, height))),
          blocked \in SUBSET cells \ {cells}}

\* Small grids that are not the generator's: cells may be WALL.
BlockedGridFamily ==
    UNION {BlockedGrids(d[1], d[2]) :
             d \in {e \in (1..BlockedMaxCells) \X (1..BlockedMaxCells) :
                      e[1] * e[2] <= BlockedMaxCells}}

InitBlocked == InitOver(BlockedGridFamily)

\* The caller sets start and end among the open entries, leaves them to the
\* defaults, and solves.
NextBlocked ==
    \/ \E start, end \in OpenEntries(solver.maze) \cup {None} :
          SetStartEnd(start, end, GridMaxCalls)
    \/ \E c \in SolveCalls : Solve(c[1], c[2], GridMaxCalls)

SpecBlocked == InitBlocked /\ [][NextBlocked]_vars

\* The positions a caller can pass to set_start_end: every entry of the
\* grid, open or not, and one position past each edge.
CallerPositions(s) ==
    DOMAIN s.maze \cup {<<-1, 1>>, <<1, -1>>, <<s.height, 1>>, <<1, s.width>>}

\* The caller passes any position as start and end, then solves.
NextCaller ==
    \/ \E start, end \in CallerPositions(solver) \cup {None} :
          SetStartEnd(start, end, GridMaxCalls - 1)
    \/ \E c \in SolveCalls : Solve(c[1], c[2], GridMaxCalls)

SpecCaller == InitSmall /\ [][NextCaller]_vars

(* ------------------------ properties of a grid ------------------------- *)

\* The wall slots: the entries with exactly one even coordinate.
Slots(maze) == {p \in DOMAIN maze : (p[1] % 2) # (p[2] % 2)}
OpenSlots(maze) == {p \in Slots(maze) : maze[p] = PATH}
\* The joints: the entries with two even coordinates.
Joints(maze) == {p \in DOMAIN maze : p[1] % 2 = 0 /\ p[2] % 2 = 0}
\* The outer border.
Border(maze) ==
    {p \in DOMAIN maze :
        \/ p[1] = 0 \/ p[2] = 0
        \/ \A q \in DOMAIN maze : q[1] <= p[1]
        \/ \A q \in DOMAIN maze : q[2] <= p[2]}

\* Two cells with an open wall slot between them.
Joined(maze, a, b) ==
    /\ (a[1] = b[1] /\ Abs(a[2] - b[2]) = 2) \/ (a[2] = b[2] /\ Abs(a[1] - b[1]) = 2)
    /\ maze[<<(a[1] + b[1]) \div 2, (a[2] + b[2]) \div 2>>] = PATH

\* The cells reachable from the cells S through open wall slots.
RECURSIVE CellsReached(_, _)
CellsReached(maze, S) ==
    LET T == S \cup {b \in Cells(maze) : \E a \in S : Joined(maze, a, b)}
    IN  IF T = S THEN S ELSE CellsReached(maze, T)

Connected(maze) == \A c \in Cells(maze) : CellsReached(maze, {c}) = Cells(maze)

\* Breadth-first layers over the open entries: the number of steps from the
\* frontier (d steps from the start) to target, -1 when there is no route.
RECURSIVE Steps(_, _, _, _, _)
Steps(maze, frontier, seen, target, d) ==
    IF target \in frontier THEN d
    ELSE IF frontier = {} THEN -1
    ELSE LET nxt == {q \in OpenEntries(maze) \ seen :
                        \E p \in frontier : Abs(p[1] - q[1]) + Abs(p[2] - q[2]) = 1}
         IN  Steps(maze, nxt, seen \cup nxt, target, d + 1)

Distance(maze, a, b) == Steps(maze, {a}, {a}, b, 0)

\* Every position an open entry, every consecutive pair one step apart.
ValidPath(maze, path) ==
    /\ \A k \in 1..Len(path) : path[k] \in DOMAIN maze /\ maze[path[k]] = PATH
    /\ \A k \in 1..(Len(path) - 1) :
          Abs(path[k][1] - path[k + 1][1]) + Abs(path[k][2] - path[k + 1][2]) = 1

Solved(algorithm, bidirectional) ==
    /\ last.op = "solve"
    /\ last.algorithm = algorithm
    /\ last.bidirectional = bidirectional

StartEndOpen ==
    /\ solver.start \in OpenEntries(solver.maze)
    /\ solver.end \in OpenEntries(solver.maze)

(* --------------------- properties of a disjoint set -------------------- *)

\* The representative of x: the end of its parent chain, nothing written.
RECURSIVE Root(_, _)
Root(parent, x) == IF parent[x] = x THEN x ELSE Root(parent, parent[x])

\* The nodes on the parent chain from x, the root left out.
RECURSIVE ChainNodes(_, _)
ChainNodes(parent, x) ==
    IF parent[x] = x THEN {} ELSE {x} \cup ChainNodes(parent, parent[x])

\* The set of x, and the partition.
SetOf(parent, x) == {z \in DOMAIN parent : Root(parent, z) = Root(parent, x)}
Partition(parent) == {SetOf(parent, x) : x \in DOMAIN parent}

(* ---------------------- recursive depth-first visit -------------------- *)

\* visit(current): st holds the cells visited, the order of the visits and
\* the path of the first arrival at end (None before it).  The neighbours
\* are tried in the order right, down, left, up.
RECURSIVE RecVisit(_, _, _, _)
RECURSIVE RecNeighbors(_, _, _, _, _)
RecVisit(s, current, path, st) ==
    LET st1 == [st EXCEPT !.visited = @ \cup {current},
                          !.order = Append(@, current)]
    IN  IF current = s.end THEN [st1 EXCEPT !.path = path]
        ELSE RecNeighbors(s, path, GetNeighbors(s, current), 1, st1)

RecNeighbors(s, path, neighbors, k, st) ==
    IF k > Len(neighbors) \/ st.path # None THEN st
    ELSE IF neighbors[k] \in st.visited
    THEN RecNeighbors(s, path, neighbors, k + 1, st)
    ELSE RecNeighbors(s, path, neighbors, k + 1,
                      RecVisit(s, neighbors[k], Append(path, neighbors[k]), st))

RecursiveDfs(s) ==
    RecVisit(s, s.start, <<s.start>>, [visited |-> {}, order |-> <<>>, path |-> None])

(* ------------------------------- claims -------------------------------- *)

\* C1: the grid generate() returns is connected (every cell reachable from
\* every other through open wall slots) and has exactly H*W-1 open wall
\* slots, for every size, difficulty and order of the walls.
C1_SpanningTree ==
    pc = "generated" =>
        /\ Connected(gen.maze)
        /\ Cardinality(OpenSlots(gen.maze)) = gen.height * gen.width - 1

C1_Witness ==
    /\ pc = "generated"
    /\ gen.width = 2 /\ gen.height = 2
    /\ gen.difficulty = "easy"

\* C2: on a generated grid, solve('bfs') and solve('dijkstra') return paths
\* of equal length, the tree distance between start and end.
C2_BfsDijkstraDistance ==
    (last.op = "solve" /\ last.algorithm \in {"bfs", "dijkstra"}) =>
        /\ last.ret # None
        /\ Len(last.ret) = Distance(solver.maze, solver.start, solver.end) + 1
        /\ Len(SolveBfs(solver).ret) = Len(SolveDijkstra(solver).ret)

C2_Witness ==
    /\ Solved("dijkstra", TRUE)
    /\ gen.width = 3 /\ gen.height = 2
    /\ Len(last.ret) = 11

\* C3: a path returned by solve('dfs') or by bidirectional A* is valid
\* (consecutive positions one step apart, every position open) and is not
\* shorter than the BFS path.
C3_DfsBidirectionalValid ==
    ((Solved("dfs", TRUE) \/ Solved("astar", TRUE)) /\ last.ret # None) =>
        /\ ValidPath(solver.maze, last.ret)
        /\ Len(last.ret) >= Len(SolveBfs(solver).ret)

\* C4: a path returned by solve() starts at start, ends at end, and is what
\* solution_path holds, for every algorithm.
C4_PathFromStartToEnd ==
    (last.op = "solve" /\ last.ret # None) =>
        /\ last.ret[1] = solver.start
        /\ last.ret[Len(last.ret)] = solver.end
        /\ solver.solution_path = last.ret

\* C5: on a generated grid the path of bidirectional A* is as long as the
\* BFS path.
C5_BidirectionalMatchesBfs ==
    Solved("astar", TRUE) =>
        /\ last.ret # None
        /\ Len(last.ret) = Len(SolveBfs(solver).ret)

\* C6: on any grid of the wall encoding, unidirectional A* returns a path as
\* long as the BFS path whenever end is reachable from start.
C6_UnidirectionalShortest ==
    (/\ Solved("astar", FALSE)
     /\ StartEndOpen
     /\ Distance(solver.maze, solver.start, solver.end) >= 0) =>
        /\ last.ret # None
        /\ Len(last.ret) = Len(SolveBfs(solver).ret)

\* C7: with start and end in two isolated regions, solve() returns None for
\* every algorithm.
C7_DisconnectedReturnsNone ==
    (/\ last.op = "solve"
     /\ StartEndOpen
     /\ Distance(solver.maze, solver.start, solver.end) = -1) =>
        last.ret = None

C7_Witness ==
    /\ Solved("astar", TRUE)
    /\ StartEndOpen
    /\ Distance(solver.maze, solver.start, solver.end) = -1
    /\ gen.width = 2 /\ gen.height = 2
    /\ Cardinality(solver.explored_cells) >= 4
    /\ last.ret = None

\* C8: two calls of solve() in a row with the same algorithm and flag return
\* the same path.
C8_SolveTwice ==
    (/\ prev.op = "solve" /\ last.op = "solve"
     /\ prev.algorithm = last.algorithm
     /\ prev.bidirectional = last.bidirectional) =>
        last.ret = prev.ret

C8_Witness ==
    /\ prev.op = "solve" /\ Solved("bfs", TRUE)
    /\ prev.algorithm = "bfs"
    /\ gen.width = 2 /\ gen.height = 3
    /\ solver.explored_cells # SeqSet(last.ret)
    /\ Len(last.ret) = 7

\* C9: with start equal to end solve() returns the one-element path [start]
\* on the first expansion, for every algorithm; the 1x1 maze has no wall
\* removed, its default start and end are both (1,1), and solve() returns
\* [(1,1)].
C9_StartIsEnd ==
    /\ (last.op = "solve" /\ solver.start = solver.end /\ StartEndOpen) =>
          /\ last.ret = <<solver.start>>
          /\ solver.explored_cells \subseteq {solver.start}
    /\ (pc \in {"generated", "solver"} /\ gen.width = 1 /\ gen.height = 1) =>
          /\ OpenSlots(gen.maze) = {}
          /\ OpenEntries(gen.maze) = {<<1, 1>>}
          /\ SetStartEndOp(NewSolver(gen.maze), None, None).start = <<1, 1>>
          /\ SetStartEndOp(NewSolver(gen.maze), None, None).end = <<1, 1>>
          /\ last.op = "solve" => last.ret = <<<<1, 1>>>>

C9_Witness ==
    /\ gen.width = 1 /\ gen.height = 1
    /\ Solved("astar", TRUE)
    /\ prev.op = "none"
    /\ last.ret = <<<<1, 1>>>>

\* C10: from construction to the end of generate(), every joint is WALL,
\* every cell is PATH and the border is WALL; generate() only changes wall
\* slots strictly inside the grid, and only from WALL to PATH.
C10_GridShape ==
    /\ \A p \in Joints(gen.maze) : gen.maze[p] = WALL
    /\ \A p \in Cells(gen.maze) : gen.maze[p] = PATH
    /\ \A p \in Border(gen.maze) : gen.maze[p] = WALL

C10_OnlyWallsOpened ==
    \A p \in DOMAIN gen.maze :
        gen.maze'[p] # gen.maze[p] =>
            /\ p \in Slots(gen.maze) \ Border(gen.maze)
            /\ gen.maze[p] = WALL /\ gen.maze'[p] = PATH

C10_GridInvariant == []C10_GridShape /\ [][C10_OnlyWallsOpened]_vars

C10_Witness ==
    /\ pc = "generating"
    /\ Cardinality(OpenSlots(gen.maze)) = 3
    /\ Cardinality(walls) = 1

\* C11: a start or end the caller supplies on a WALL entry or outside the
\* grid is rejected before the search: solve() expands no node at, and
\* returns no path through, a position that is not an open entry of the grid.
C11_InvalidStartOrEndRejected ==
    last.op = "solve" =>
        /\ solver.explored_cells \subseteq OpenEntries(solver.maze)
        /\ last.ret # None => SeqSet(last.ret) \subseteq OpenEntries(solver.maze)

\* C12: MazeGenerator(width, height) with width <= 0 or height <= 0 fails at
\* construction, and no generator and no grid is made.
C12_InvalidDimensions ==
    (gen.width <= 0 \/ gen.height <= 0) => (pc # "constructed" /\ gen.maze = None)

\* C12, amended: main() rejects a width or height <= 0 before it constructs
\* the generator, and then no generator and no grid is made; otherwise
\* main() constructs the generator.
C12_MainRejects ==
    pc = "main" =>
        IF gen.width <= 0 \/ gen.height <= 0
        THEN pc' = "rejected" /\ gen'.maze = None
        ELSE pc' = "constructed" /\ gen'.maze = NewMaze(gen.width, gen.height)

C12_MainRejectsInvalidDimensions == [][C12_MainRejects]_vars

C12_Witness ==
    /\ pc = "rejected"
    /\ gen.width = 0 /\ gen.height = 1
    /\ gen.maze = None

\* C13: set_start_end() with start or end unset chooses the default from the
\* grid alone: what a new solver over the same grid would choose, whatever
\* start and end earlier calls have left.
C13_DefaultsFromGridAlone ==
    last.op = "set_start_end" =>
        /\ last.start_is_none =>
              solver.start = SetStartEndOp(NewSolver(solver.maze), None, None).start
        /\ last.end_is_none =>
              solver.end = SetStartEndOp(NewSolver(solver.maze), None, None).end

\* C14: union(x, y) returns false and leaves parent and the partition
\* unchanged exactly when x and y already share a representative; otherwise
\* it returns true, find(x) = find(y) afterwards, and exactly the sets of x
\* and y are merged.
C14_UnionMerges ==
    last.op = "union" =>
        LET old == last.before.parent
            x == last.x
            y == last.y
        IN  IF Root(old, x) = Root(old, y)
            THEN /\ last.ret = FALSE
                 /\ ds.parent = old
                 /\ Partition(ds.parent) = Partition(old)
            ELSE /\ last.ret = TRUE
                 /\ Find(ds.parent, x).root = Find(ds.parent, y).root
                 /\ Partition(ds.parent) =
                       (Partition(old) \ {SetOf(old, x), SetOf(old, y)})
                           \cup {SetOf(old, x) \cup SetOf(old, y)}

\* C14, amended: as C14, but a union that returns false leaves the partition
\* and the ranks unchanged and changes parent only by the path compression
\* of its two finds: the nodes on the chains from x and from y point at
\* their root, every other entry is as before.
C14_UnionMergesCompressing ==
    last.op = "union" =>
        LET old == last.before.parent
            x == last.x
            y == last.y
        IN  IF Root(old, x) = Root(old, y)
            THEN /\ last.ret = FALSE
                 /\ ds.rank = last.before.rank
                 /\ Partition(ds.parent) = Partition(old)
                 /\ \A z \in DOMAIN old :
                       ds.parent[z] =
                           IF z \in ChainNodes(old, x) \cup ChainNodes(old, y)
                           THEN Root(old, z) ELSE old[z]
            ELSE /\ last.ret = TRUE
                 /\ Find(ds.parent, x).root = Find(ds.parent, y).root
                 /\ Partition(ds.parent) =
                       (Partition(old) \ {SetOf(old, x), SetOf(old, y)})
                           \cup {SetOf(old, x) \cup SetOf(old, y)}

C14_Witness ==
    /\ last.op = "union"
    /\ last.ret = FALSE
    /\ last.x # last.y
    /\ ds.parent # last.before.parent

\* C15: when bidirectional A* finds a meeting point m, the path returned is
\* the forward chain start..m followed by the backward chain from m to end,
\* with m once and no cell of either chain left out.
C15_MeetingPathComplete ==
    Solved("astar", TRUE) =>
        LET r == SolveAstar(solver, TRUE)
        IN  /\ r.ret = last.ret
            /\ "meeting_point" \in DOMAIN r =>
                  last.ret =
                      ReverseSeq(Chain(r.fwd_came_from, r.meeting_point)) \o
                          Tail(Chain(r.back_came_from, r.meeting_point))

\* C16: at every step of generate() a wall slot is set to PATH exactly when
\* union of its two cells returned true; so after each wall two cells share
\* a representative if and only if they are connected through open wall
\* slots, and the number of open wall slots is H*W minus the number of
\* union-find components.
C16_Components ==
    pc = "generating" =>
        /\ \A a, b \in Cells(gen.maze) :
              (Root(ds.parent, CellIdx(a, gen.width)) =
                  Root(ds.parent, CellIdx(b, gen.width)))
                  <=> b \in CellsReached(gen.maze, {a})
        /\ Cardinality(OpenSlots(gen.maze)) =
              gen.height * gen.width
                  - Cardinality({Root(ds.parent, x) : x \in DOMAIN ds.parent})

C16_OpenedIffMerged ==
    (pc = "generating" /\ walls' # walls) =>
        \A w \in walls \ walls' :
            /\ gen.maze[<<w[1], w[2]>>] = WALL
            /\ gen'.maze[<<w[1], w[2]>>] = PATH
                  <=> Union(ds, CellIdx(w[3], gen.width), CellIdx(w[4], gen.width)).ret
            /\ gen'.maze[<<w[1], w[2]>>] = PATH
                  <=> Root(ds.parent, CellIdx(w[3], gen.width)) #
                          Root(ds.parent, CellIdx(w[4], gen.width))
            /\ \A p \in DOMAIN gen.maze \ {<<w[1], w[2]>>} :
                  gen'.maze[p] = gen.maze[p]

C16_NoCycle == []C16_Components /\ [][C16_OpenedIffMerged]_vars

C16_Witness ==
    /\ pc = "generating"
    /\ walls # {}
    /\ \E w \in AllWalls(gen.width, gen.height) \ walls :
          gen.maze[<<w[1], w[2]>>] = WALL
    /\ \E x \in DOMAIN ds.parent : ds.parent[ds.parent[x]] # ds.parent[x]

\* C17: after any sequence of find and union calls, find(x) returns a
\* representative r with parent[r] = r, leaves the partition unchanged, and
\* afterwards every node that was on the parent chain from x to r has r as
\* its parent.
C17_FindCompresses ==
    last.op = "find" =>
        LET old == last.before.parent
            r == last.ret
        IN  /\ ds.parent[r] = r
            /\ r = Root(old, last.x)
            /\ Partition(ds.parent) = Partition(old)
            /\ \A z \in ChainNodes(old, last.x) : ds.parent[z] = r
            /\ \A z \in DOMAIN old \ ChainNodes(old, last.x) : ds.parent[z] = old[z]
            /\ ds.rank = last.before.rank

C17_Witness ==
    /\ last.op = "find"
    /\ Cardinality(ChainNodes(last.before.parent, last.x)) = 2
    /\ ds.parent # last.before.parent
    /\ ds.parent[last.x] = last.ret

\* C18: in Dijkstra and in A* (either mode), on any grid, a node popped
\* from a priority queue and expanded was queued under the priority that
\* the cheapest cost recorded for it at that moment gives.
C18_NoStaleExpansion ==
    (last.op = "solve" /\ last.algorithm \in {"dijkstra", "astar"}) =>
        LET r == SolveOp(solver, last.algorithm, last.bidirectional)
        IN  /\ r.ret = last.ret
            /\ \A e \in r.expanded : e.priority = e.recorded

\* C19: on any grid, the order in which DFS pops cells, and the path it
\* returns, are those of a recursive depth-first visit from start that
\* tries the neighbours in the order right, down, left, up and stops at the
\* first arrival at end.
C19_DfsIsRecursiveVisit ==
    (Solved("dfs", TRUE) /\ StartEndOpen) =>
        LET r == SolveDfs(solver)
        IN  /\ r.ret = last.ret
            /\ r.popped = RecursiveDfs(solver).order
            /\ last.ret = RecursiveDfs(solver).path

\* C20: when an observer is set, generate() invokes it at a fixed sampling
\* interval of wall removals and not after every wall-removing edge, for
\* every maze size: the number of invocations is the number of walls
\* removed divided by an interval of 2 or more.
C20_ObserverSampled ==
    (gen.animation_callback # None /\ pc \in {"generating", "generated"}) =>
        LET removed == Cardinality(OpenSlots(gen.maze))
        IN  \E interval \in 2..(removed + 2) :
                gen.notified = removed \div interval

\* C21: on any grid of the wall encoding, with or without cycles, if end is
\* reachable from start through PATH entries then every algorithm returns
\* a path and not None, bidirectional A* included.
C21_ReachableReturnsPath ==
    (/\ last.op = "solve"
     /\ StartEndOpen
     /\ Distance(solver.maze, solver.start, solver.end) >= 0) =>
        last.ret # None

C21_Witness ==
    /\ Solved("astar", TRUE)
    /\ StartEndOpen
    /\ gen.width = 2 /\ gen.height = 2
    /\ Cardinality(OpenSlots(solver.maze)) = 4
    /\ Distance(solver.maze, solver.start, solver.end) = 4
    /\ "meeting_point" \in DOMAIN SolveAstar(solver, TRUE)
    /\ last.ret # None

\* C22: after any sequence of set_start_end and solve calls on one solver,
\* solution_path is what the most recent solve() returned; after a solve()
\* that returned None it does not hold the path of an earlier solve().
C22_SolutionPathIsLastResult ==
    last.op = "solve" => solver.solution_path = last.ret

====
